---- MODULE Spec2Model ----
(***************************************************************************)
(* Model of the sharded LRU cache (package lru): the shard (order list +   *)
(* index + atomic count), the top-level LRU that routes keys to shards by  *)
(* an FNV-1a hash, and its public operations.                              *)
(*                                                                         *)
(* Representation.  A shard's container/list is a sequence of entries,     *)
(* front (most recently used) first.  A *list.Element pointer held by the  *)
(* index is represented by the element's current position in the list      *)
(* (pointer identity up to renaming); the list operations renumber the     *)
(* pointers the index holds, and a pointer to an element that has left the *)
(* list is Dangling.  32-bit hash values are kept as four bytes, least     *)
(* significant first, because they exceed TLC's integer range.             *)
(***************************************************************************)
EXTENDS Integers, Sequences, FiniteSets, TLC

\* ------------------------------------------------------------- bounds
MaxKey == 3
MaxCap == 2
MaxShards == 3
MaxStop == 2
MaxThreads == 2
MaxVisits == 3

Keys == 1..MaxKey
Threads == 1..MaxThreads
\* the cache never inspects a value: two distinguishable ones tell a replaced
\* value from a kept one
Vals == {1, 2}
\* withCapacity / withShards arguments tried (negative and zero included)
CapOpts == (0 - 1)..MaxCap
ShardOpts == (0 - 1)..MaxShards

\* ---------------------------------------------------------- constants
\* Go's nil (a missing key or value)
Nil == 0
\* an index pointer whose element is no longer in the list
Dangling == 0
\* strconv.IntSize / 8 on a 64-bit build
il == 8
\* hash/fnv: offset basis 0x811C9DC5, least significant byte first
FnvOffset32 == <<197, 157, 28, 129>>
\* hash/fnv: prime 0x01000193 = 2^24 + FnvPrimeLow
FnvPrimeLow == 403

\* cap, nshards, shards: the fields of the LRU (shards = <<>> is the nil slice)
\* panicked: a run-time panic has ended the program
\* last:     the last call and what it returned
\* prev:     the shards and the recency order just before the last call
\* recency:  per shard, the stored keys in the order of their last Add or
\*           successful Get, most recent first (history, not program state)
\* added:    in the runs of Add calls alone (SpecAdd), only = TRUE and keys is
\*           the set of keys added so far; elsewhere only = FALSE and keys = {}
\*           (history, not program state)
VARIABLES cap, nshards, shards, panicked, last, prev, recency, added, live, u,
          objs, mu, slice, th

vars ==
  <<cap, nshards, shards, panicked, last, prev, recency, added, live, u,
    objs, mu, slice, th>>

\* the state of the concurrent callers, and the history of the calls made
\* one after another
conc == <<objs, mu, slice, th>>
hist == <<last, prev, recency, added, live, u>>

\* ------------------------------------------------------ bit arithmetic
RECURSIVE BitXor(_, _)
BitXor(a, b) ==
  IF a = 0 THEN b
  ELSE IF b = 0 THEN a
  ELSE (((a % 2) + (b % 2)) % 2) + 2 * BitXor(a \div 2, b \div 2)

RECURSIVE BitAnd(_, _)
BitAnd(a, b) ==
  IF a = 0 \/ b = 0 THEN 0
  ELSE (a % 2) * (b % 2) + 2 * BitAnd(a \div 2, b \div 2)

\* Go's integer division truncates toward zero
GoDiv(a, b) ==
  IF a >= 0 THEN a \div b ELSE 0 - ((0 - a) \div b)

\* ------------------------------------------------------------ hashing
\* intBytes: the il little-endian bytes of a (non-negative) int
intBytes(i) ==
  [n \in 1..il |-> IF n = 1 THEN i % 256
                   ELSE IF n = 2 THEN (i \div 256) % 256
                   ELSE IF n = 3 THEN (i \div 65536) % 256
                   ELSE IF n = 4 THEN (i \div 16777216) % 256
                   ELSE 0]

\* one FNV-1a step on a 32-bit state h: h ^= c; h *= prime (mod 2^32)
FnvStep(h, c) ==
  LET x0 == BitXor(h[1], c)
      t0 == x0 * FnvPrimeLow
      t1 == h[2] * FnvPrimeLow + (t0 \div 256)
      t2 == h[3] * FnvPrimeLow + (t1 \div 256)
      t3 == h[4] * FnvPrimeLow + (t2 \div 256) + x0
  IN <<t0 % 256, t1 % 256, t2 % 256, t3 % 256>>

RECURSIVE FnvWrite(_, _)
FnvWrite(h, bytes) ==
  IF bytes = <<>> THEN h
  ELSE FnvWrite(FnvStep(h, Head(bytes)), Tail(bytes))

\* fnv.New32a(), h.Write(intBytes(key)), h.Sum32()
Sum32 == [k \in Keys |-> FnvWrite(FnvOffset32, intBytes(k))]

\* uint32(n) for n >= -1, as four bytes
Uint32(n) ==
  IF n < 0 THEN <<255, 255, 255, 255>>
  ELSE <<n % 256, (n \div 256) % 256, (n \div 65536) % 256, (n \div 16777216) % 256>>

\* the mask taken from nsh for nsh - 1
MaskBytesOffByOne(h, nsh) ==
  LET m == Uint32(nsh)
  IN [n \in 1..4 |-> BitAnd(h[n], m[n])]

\* h & uint32(nsh - 1) for a 32-bit h, as four bytes
MaskBytes(h, nsh) ==
  LET m == Uint32(nsh - 1)
  IN [n \in 1..4 |-> BitAnd(h[n], m[n])]

\* h.Sum32() & uint32(nsh - 1), as four bytes
MaskedHash(key, nsh) == MaskBytes(Sum32[key], nsh)

\* the slice index computed by LRU.shard (0-based); defined when it fits
ShardIndex(key, nsh) == MaskedHash(key, nsh)[1]

\* whether l.shards[index] is inside a slice of length n
IndexInRange(key, nsh, n) ==
  LET h == MaskedHash(key, nsh)
  IN h[2] = 0 /\ h[3] = 0 /\ h[4] = 0 /\ h[1] < n

\* -------------------------------------------------- container/list
\* The list operations act on a shard record [cap, len, idx, l]: they change
\* the list l and renumber the element pointers held in idx.

\* l.PushFront(e): the new element is at position 1
PushFront(s, e) ==
  [s EXCEPT !.l = <<e>> \o s.l,
            !.idx = [k \in DOMAIN s.idx |->
                       IF s.idx[k] = Dangling THEN Dangling ELSE s.idx[k] + 1]]

\* l.MoveToFront(le): nothing when le is not an element of l
MoveToFront(s, p) ==
  IF p = Dangling \/ p = 1 THEN s
  ELSE [s EXCEPT !.l = <<s.l[p]>> \o SubSeq(s.l, 1, p - 1)
                          \o SubSeq(s.l, p + 1, Len(s.l)),
                 !.idx = [k \in DOMAIN s.idx |->
                            IF s.idx[k] = p THEN 1
                            ELSE IF s.idx[k] # Dangling /\ s.idx[k] < p
                                 THEN s.idx[k] + 1
                                 ELSE s.idx[k]]]

\* l.Remove(le): nothing when le is not an element of l
ListRemove(s, p) ==
  IF p = Dangling THEN s
  ELSE [s EXCEPT !.l = SubSeq(s.l, 1, p - 1) \o SubSeq(s.l, p + 1, Len(s.l)),
                 !.idx = [k \in DOMAIN s.idx |->
                            IF s.idx[k] = p THEN Dangling
                            ELSE IF s.idx[k] > p THEN s.idx[k] - 1
                            ELSE s.idx[k]]]

\* ------------------------------------------------------------- shard
\* Between calls the index holds no Dangling pointer (IndexOrderConsistent);
\* the Dangling branches below only keep the operators total.
newShard(c) == [cap |-> c, len |-> 0, idx |-> <<>>, l |-> <<>>]

\* shard.Len: the atomic count
ShardLen(s) == s.len

\* removeElement without delete(s.idx, e.key)
removeElementKeepIndex(s, p) ==
  LET s1 == ListRemove(s, p)
  IN [s1 EXCEPT !.len = s1.len - 1]

\* removeElement without atomic.AddInt32(&s.len, -1)
removeElementNoCount(s, p) ==
  LET e == s.l[p]
      s1 == ListRemove(s, p)
  IN [s1 EXCEPT !.idx = [k \in (DOMAIN s1.idx) \ {e.key} |-> s1.idx[k]]]

\* shard.removeElement(le), le an element of the list
removeElement(s, p) ==
  LET e == s.l[p]
      s1 == ListRemove(s, p)
  IN [s1 EXCEPT !.idx = [k \in (DOMAIN s1.idx) \ {e.key} |-> s1.idx[k]],
                !.len = s1.len - 1]

\* removeOldest taking s.l.Front() for s.l.Back()
removeOldestFront(s) ==
  IF Len(s.l) = 0 THEN s ELSE removeElement(s, 1)

\* shard.removeOldest
removeOldest(s) ==
  IF Len(s.l) = 0 THEN s ELSE removeElement(s, Len(s.l))

\* add testing s.Len() > s.cap + 1
addOffByOne(s, k, v) ==
  IF k \in DOMAIN s.idx
  THEN LET le == s.idx[k]
           s1 == IF le = Dangling THEN s
                 ELSE [s EXCEPT !.l[le].val = v]
       IN MoveToFront(s1, le)
  ELSE LET s1 == PushFront(s, [key |-> k, val |-> v])
           s2 == [s1 EXCEPT !.idx = [x \in (DOMAIN s1.idx) \cup {k} |->
                                       IF x = k THEN 1 ELSE s1.idx[x]],
                            !.len = s1.len + 1]
       IN IF s2.cap > 0 /\ ShardLen(s2) > s2.cap + 1
          THEN removeOldest(s2)
          ELSE s2

\* add without s.l.MoveToFront(le) for a key already present
addNoPromote(s, k, v) ==
  IF k \in DOMAIN s.idx
  THEN LET le == s.idx[k]
       IN IF le = Dangling THEN s ELSE [s EXCEPT !.l[le].val = v]
  ELSE LET s1 == PushFront(s, [key |-> k, val |-> v])
           s2 == [s1 EXCEPT !.idx = [x \in (DOMAIN s1.idx) \cup {k} |->
                                       IF x = k THEN 1 ELSE s1.idx[x]],
                            !.len = s1.len + 1]
       IN IF s2.cap > 0 /\ ShardLen(s2) > s2.cap
          THEN removeOldest(s2)
          ELSE s2

\* add evicting whenever the count exceeds cap, unbounded shards too
addEvictUnbounded(s, k, v) ==
  IF k \in DOMAIN s.idx
  THEN LET le == s.idx[k]
           s1 == IF le = Dangling THEN s
                 ELSE [s EXCEPT !.l[le].val = v]
       IN MoveToFront(s1, le)
  ELSE LET s1 == PushFront(s, [key |-> k, val |-> v])
           s2 == [s1 EXCEPT !.idx = [x \in (DOMAIN s1.idx) \cup {k} |->
                                       IF x = k THEN 1 ELSE s1.idx[x]],
                            !.len = s1.len + 1]
       IN IF ShardLen(s2) > s2.cap
          THEN removeOldest(s2)
          ELSE s2

\* shard.add
add(s, k, v) ==
  IF k \in DOMAIN s.idx
  THEN LET le == s.idx[k]
           s1 == IF le = Dangling THEN s
                 ELSE [s EXCEPT !.l[le].val = v]
       IN MoveToFront(s1, le)
  ELSE LET s1 == PushFront(s, [key |-> k, val |-> v])
           s2 == [s1 EXCEPT !.idx = [x \in (DOMAIN s1.idx) \cup {k} |->
                                       IF x = k THEN 1 ELSE s1.idx[x]],
                            !.len = s1.len + 1]
       IN IF s2.cap > 0 /\ ShardLen(s2) > s2.cap
          THEN removeOldest(s2)
          ELSE s2

\* add down to atomic.AddInt32(&s.len, 1); done: it returned, the key found
addInsert(s, k, v) ==
  IF k \in DOMAIN s.idx
  THEN LET le == s.idx[k]
           s1 == IF le = Dangling THEN s
                 ELSE [s EXCEPT !.l[le].val = v]
       IN [s |-> MoveToFront(s1, le), done |-> TRUE]
  ELSE LET s1 == PushFront(s, [key |-> k, val |-> v])
       IN [s |-> [s1 EXCEPT !.idx = [x \in (DOMAIN s1.idx) \cup {k} |->
                                       IF x = k THEN 1 ELSE s1.idx[x]],
                            !.len = s1.len + 1],
           done |-> FALSE]

\* add from there: if s.cap > 0 && s.Len() > s.cap { s.removeOldest() }
addEvict(s) ==
  IF s.cap > 0 /\ ShardLen(s) > s.cap THEN removeOldest(s) ELSE s

\* s.Lock() by thread t, on the locks m of the shard objects
lock(m, o, t) == [m EXCEPT ![o] = t]

\* a return that leaves the lock held
unlockNothing(m, o) == m

\* s.Unlock()
unlock(m, o) == [m EXCEPT ![o] = 0]

\* front returning s.l.Back()
frontBack(s) ==
  IF ShardLen(s) = 0
  THEN [key |-> Nil, val |-> Nil, panic |-> FALSE]
  ELSE IF Len(s.l) = 0
       THEN [key |-> Nil, val |-> Nil, panic |-> TRUE]
       ELSE [key |-> s.l[Len(s.l)].key, val |-> s.l[Len(s.l)].val,
             panic |-> FALSE]

\* shard.front
front(s) ==
  IF ShardLen(s) = 0
  THEN [key |-> Nil, val |-> Nil, panic |-> FALSE]
  ELSE IF Len(s.l) = 0
       THEN [key |-> Nil, val |-> Nil, panic |-> TRUE]
       ELSE [key |-> s.l[1].key, val |-> s.l[1].val, panic |-> FALSE]

\* get without s.l.MoveToFront(le)
getNoPromote(s, key) ==
  IF key \in DOMAIN s.idx
  THEN LET le == s.idx[key]
       IN [s |-> s,
           value |-> IF le = Dangling THEN Nil ELSE s.l[le].val,
           ok |-> TRUE]
  ELSE [s |-> s, value |-> Nil, ok |-> FALSE]

\* shard.get
get(s, key) ==
  IF key \in DOMAIN s.idx
  THEN LET le == s.idx[key]
       IN [s |-> MoveToFront(s, le),
           value |-> IF le = Dangling THEN Nil ELSE s.l[le].val,
           ok |-> TRUE]
  ELSE [s |-> s, value |-> Nil, ok |-> FALSE]

\* removeKey returning at once
removeKeyNothing(s, key) == s

\* shard.removeKey
removeKey(s, key) ==
  IF key \notin DOMAIN s.idx THEN s
  ELSE IF s.idx[key] = Dangling
       THEN [s EXCEPT !.idx = [k \in (DOMAIN s.idx) \ {key} |-> s.idx[k]],
                      !.len = s.len - 1]
       ELSE removeElement(s, s.idx[key])

\* --------------------------------------------------------------- LRU
\* New(withCapacity(c), withShards(n))
New(c, n) ==
  LET ns == IF n < 1 THEN 1 ELSE n
      shardCap == GoDiv(c, ns)
  IN [cap |-> c, nshards |-> ns, shards |-> [i \in 1..ns |-> newShard(shardCap)]]

\* LRU.lazyInit on the fields (cap, nshards, shards); shards = <<>> is nil
lazyInit(c, ns, shs) ==
  IF shs = <<>>
  THEN [nshards |-> 1, shards |-> <<newShard(c)>>]
  ELSE [nshards |-> ns, shards |-> shs]

\* LRU.shard(key): the 1-based position in shards of the shard selected, or
\* 0 when the slice index is out of range (a run-time panic)
Route(key, ns, shs) ==
  IF IndexInRange(key, ns, Len(shs)) THEN ShardIndex(key, ns) + 1 ELSE 0

RECURSIVE SumLen(_, _)
\* Len looping from i := 1
SumLenFromOne(shs, n) ==
  IF n <= 1 THEN 0 ELSE SumLen(shs, n - 1) + ShardLen(shs[n])

\* LRU.Len: the sum of the shards' counts, for i < nshards
SumLen(shs, n) ==
  IF n = 0 THEN 0 ELSE SumLen(shs, n - 1) + ShardLen(shs[n])

\* The walk of one shard's list by Traverse (step = 1, from the front) or
\* TraverseReverse (step = -1, from the back).  fn returns false on its
\* stop-th call (stop = 0: never).  brk: the walk ended in "break L".
RECURSIVE WalkList(_, _, _, _, _)
\* the walk going on after fn has returned false
WalkListNoStop(l, p, step, stop, acc) ==
  IF p < 1 \/ p > Len(l)
  THEN [brk |-> TRUE, acc |-> acc]
  ELSE WalkList(l, p + step, step, stop, Append(acc, l[p]))

WalkList(l, p, step, stop, acc) ==
  IF p < 1 \/ p > Len(l)
  THEN [brk |-> TRUE, acc |-> acc]
  ELSE LET acc2 == Append(acc, l[p])
       IN IF Len(acc2) = stop
          THEN [brk |-> TRUE, acc |-> acc2]
          ELSE WalkList(l, p + step, step, stop, acc2)

\* for _, s := range l.shards { ... }
RECURSIVE WalkShards(_, _, _, _, _)
WalkShards(shs, i, step, stop, acc) ==
  IF i > Len(shs) THEN acc
  ELSE LET first == IF step = 1 THEN 1 ELSE Len(shs[i].l)
           r == WalkList(shs[i].l, first, step, stop, acc)
       IN IF r.brk THEN r.acc
          ELSE WalkShards(shs, i + 1, step, stop, r.acc)

\* ------------------------------------------------------------ history
Call(op, key, val, ok, rkey, rval, n, stop, visits) ==
  [op |-> op, key |-> key, val |-> val, ok |-> ok, rkey |-> rkey, rval |-> rval,
   n |-> n, stop |-> stop, visits |-> visits]

KeysOf(l) == {l[j].key : j \in 1..Len(l)}

Without(seq, k) == LET Keep(x) == x # k IN SelectSeq(seq, Keep)
Only(seq, S) == LET Keep(x) == x \in S IN SelectSeq(seq, Keep)
Touch(seq, k) == <<k>> \o Without(seq, k)
Has(seq, k) == \E j \in 1..Len(seq) : seq[j] = k

\* The recency order after a call on key k: per shard, the keys the shard
\* still stores in the order of their last Add (insert = TRUE) or successful
\* Get; drop = TRUE for Remove.  rec is the order before the call, shs and
\* ns the shards and their number after it.
Track(rec, shs, ns, k, insert, drop) ==
  [i \in 1..Len(shs) |->
     LET old == IF i \in DOMAIN rec THEN rec[i] ELSE <<>>
         mine == Route(k, ns, shs) = i
         new == IF ~mine THEN old
                ELSE IF drop THEN Without(old, k)
                ELSE IF insert \/ Has(old, k) THEN Touch(old, k)
                ELSE old
     IN Only(new, KeysOf(shs[i].l))]

\* the recency order kept when lazyInit installs the first shard
Resize(rec, shs) ==
  [i \in 1..Len(shs) |-> IF i \in DOMAIN rec THEN rec[i] ELSE <<>>]

NotOnlyAdds == [only |-> FALSE, keys |-> {}]

\* the latest value added for each key and not removed since (Nil: none),
\* followed only where on is set
NoLive == [on |-> FALSE, m |-> [k \in Keys |-> Nil]]
Put(lv, k, v) == IF lv.on THEN [lv EXCEPT !.m[k] = v] ELSE lv

Before == [shards |-> shards, recency |-> recency]

\* ------------------------------------------------- the unsharded LRU
\* The LRU with one list and one lock, as a record [cap, idx, l]; its
\* operations carry the prefix U.  Built by New its list is never nil, so
\* its lazyInit does nothing.
UNew(c) == [cap |-> c, idx |-> <<>>, l |-> <<>>]

ULen(x) == Len(x.l)

\* remove(le), le an element of the list
Uremove(x, p) ==
  LET e == x.l[p]
      x1 == ListRemove(x, p)
  IN [x1 EXCEPT !.idx = [k \in (DOMAIN x1.idx) \ {e.key} |-> x1.idx[k]]]

UremoveOldest(x) ==
  IF Len(x.l) = 0 THEN x ELSE Uremove(x, Len(x.l))

UAdd(x, k, v) ==
  IF k \in DOMAIN x.idx
  THEN LET le == x.idx[k]
           x1 == IF le = Dangling THEN x
                 ELSE [x EXCEPT !.l[le].val = v]
       IN MoveToFront(x1, le)
  ELSE LET x1 == PushFront(x, [key |-> k, val |-> v])
           x2 == [x1 EXCEPT !.idx = [y \in (DOMAIN x1.idx) \cup {k} |->
                                       IF y = k THEN 1 ELSE x1.idx[y]]]
       IN IF x2.cap > 0 /\ Len(x2.l) > x2.cap
          THEN UremoveOldest(x2)
          ELSE x2

UPeekFront(x) ==
  IF Len(x.l) = 0 THEN [key |-> Nil, val |-> Nil]
  ELSE [key |-> x.l[1].key, val |-> x.l[1].val]

UGet(x, key) ==
  IF key \in DOMAIN x.idx
  THEN LET le == x.idx[key]
       IN [x |-> MoveToFront(x, le),
           value |-> IF le = Dangling THEN Nil ELSE x.l[le].val,
           ok |-> TRUE]
  ELSE [x |-> x, value |-> Nil, ok |-> FALSE]

URemove(x, key) ==
  IF key \notin DOMAIN x.idx THEN x
  ELSE IF x.idx[key] = Dangling
       THEN [x EXCEPT !.idx = [k \in (DOMAIN x.idx) \ {key} |-> x.idx[k]]]
       ELSE Uremove(x, x.idx[key])

\* Traverse (step = 1) and TraverseReverse (step = -1)
UTraverse(x, step, stop) ==
  WalkList(x.l, IF step = 1 THEN 1 ELSE Len(x.l), step, stop, <<>>).acc

NoCall == Call("New", Nil, Nil, FALSE, Nil, Nil, 0, 0, <<>>)

\* u.c is an unsharded LRU given the same calls as the sharded one and
\* u.ret what its last call returned, followed only where on is set
NoU == [on |-> FALSE, c |-> UNew(0), ret |-> NoCall]

Mirror(op, key, val, stop) ==
  IF ~u.on THEN u
  ELSE LET x == u.c
           g == UGet(x, key)
           f == UPeekFront(x)
       IN [on |-> TRUE,
           c |-> CASE op = "Add" -> UAdd(x, key, val)
                   [] op = "Get" -> g.x
                   [] op = "Remove" -> URemove(x, key)
                   [] OTHER -> x,
           ret |-> CASE op = "Get" ->
                          Call(op, key, Nil, g.ok, Nil, g.value, 0, 0, <<>>)
                     [] op = "Len" ->
                          Call(op, Nil, Nil, FALSE, Nil, Nil, ULen(x), 0, <<>>)
                     [] op = "PeekFront" ->
                          Call(op, Nil, Nil, FALSE, f.key, f.val, 0, 0, <<>>)
                     [] op = "Traverse" ->
                          Call(op, Nil, Nil, FALSE, Nil, Nil, 0, stop,
                               UTraverse(x, 1, stop))
                     [] op = "TraverseReverse" ->
                          Call(op, Nil, Nil, FALSE, Nil, Nil, 0, stop,
                               UTraverse(x, 0 - 1, stop))
                     [] OTHER ->
                          Call(op, key, val, FALSE, Nil, Nil, 0, 0, <<>>)]

\* ------------------------------------------------------------ actions
\* LRU.Add(k, v)
Add(k, v) ==
  /\ ~panicked
  /\ LET li == lazyInit(cap, nshards, shards)
         i == Route(k, li.nshards, li.shards)
     IN /\ nshards' = li.nshards
        /\ shards' = IF i = 0 THEN li.shards
                     ELSE [li.shards EXCEPT ![i] = add(@, k, v)]
        /\ panicked' = (i = 0)
  /\ last' = Call("Add", k, v, FALSE, Nil, Nil, 0, 0, <<>>)
  /\ prev' = Before
  /\ recency' = Track(recency, shards', nshards', k, TRUE, FALSE)
  /\ added' = IF added.only THEN [only |-> TRUE, keys |-> added.keys \cup {k}]
               ELSE added
  /\ live' = Put(live, k, v)
  /\ u' = Mirror("Add", k, v, 0)
  /\ UNCHANGED conc
  /\ UNCHANGED cap

\* LRU.Get(key)
Get(key) ==
  /\ ~panicked
  /\ LET i == Route(key, nshards, shards)
         r == IF i = 0 THEN [s |-> <<>>, value |-> Nil, ok |-> FALSE]
              ELSE get(shards[i], key)
     IN /\ shards' = IF i = 0 THEN shards ELSE [shards EXCEPT ![i] = r.s]
        /\ panicked' = (i = 0)
        /\ last' = Call("Get", key, Nil, r.ok, Nil, r.value, 0, 0, <<>>)
  /\ prev' = Before
  /\ recency' = Track(recency, shards', nshards, key, FALSE, FALSE)
  /\ added' = NotOnlyAdds
  /\ u' = Mirror("Get", key, Nil, 0)
  /\ UNCHANGED conc
  /\ UNCHANGED <<cap, nshards, live>>

\* LRU.Remove(key)
Remove(key) ==
  /\ ~panicked
  /\ LET i == Route(key, nshards, shards)
     IN /\ shards' = IF i = 0 THEN shards
                     ELSE [shards EXCEPT ![i] = removeKey(@, key)]
        /\ panicked' = (i = 0)
  /\ last' = Call("Remove", key, Nil, FALSE, Nil, Nil, 0, 0, <<>>)
  /\ prev' = Before
  /\ recency' = Track(recency, shards', nshards, key, FALSE, TRUE)
  /\ added' = NotOnlyAdds
  /\ live' = Put(live, key, Nil)
  /\ u' = Mirror("Remove", key, Nil, 0)
  /\ UNCHANGED conc
  /\ UNCHANGED <<cap, nshards>>

\* LRU.Len()
LRULen ==
  /\ ~panicked
  /\ LET li == lazyInit(cap, nshards, shards)
     IN /\ nshards' = li.nshards
        /\ shards' = li.shards
        /\ last' = Call("Len", Nil, Nil, FALSE, Nil, Nil,
                        SumLen(li.shards, li.nshards), 0, <<>>)
  /\ prev' = Before
  /\ recency' = Resize(recency, shards')
  /\ u' = Mirror("Len", Nil, Nil, 0)
  /\ UNCHANGED conc
  /\ UNCHANGED <<cap, panicked, added, live>>

\* LRU.PeekFront(): the front of the shard of the key 1
PeekFront ==
  /\ ~panicked
  /\ LET li == lazyInit(cap, nshards, shards)
         i == Route(1, li.nshards, li.shards)
         r == IF i = 0 THEN [key |-> Nil, val |-> Nil, panic |-> TRUE]
              ELSE front(li.shards[i])
     IN /\ nshards' = li.nshards
        /\ shards' = li.shards
        /\ panicked' = r.panic
        /\ last' = Call("PeekFront", Nil, Nil, FALSE, r.key, r.val, 0, 0, <<>>)
  /\ prev' = Before
  /\ recency' = Resize(recency, shards')
  /\ u' = Mirror("PeekFront", Nil, Nil, 0)
  /\ UNCHANGED conc
  /\ UNCHANGED <<cap, added, live>>

\* LRU.Traverse(fn), fn returning false on its stop-th call (0: never)
Traverse(stop) ==
  /\ ~panicked
  /\ last' = Call("Traverse", Nil, Nil, FALSE, Nil, Nil, 0, stop,
                  WalkShards(shards, 1, 1, stop, <<>>))
  /\ prev' = Before
  /\ u' = Mirror("Traverse", Nil, Nil, stop)
  /\ UNCHANGED conc
  /\ UNCHANGED <<cap, nshards, shards, panicked, recency, added, live>>

\* LRU.TraverseReverse(fn)
TraverseReverse(stop) ==
  /\ ~panicked
  /\ last' = Call("TraverseReverse", Nil, Nil, FALSE, Nil, Nil, 0, stop,
                  WalkShards(shards, 1, 0 - 1, stop, <<>>))
  /\ prev' = Before
  /\ u' = Mirror("TraverseReverse", Nil, Nil, stop)
  /\ UNCHANGED conc
  /\ UNCHANGED <<cap, nshards, shards, panicked, recency, added, live>>

\* ------------------------------------------------- concurrent callers
\* Each thread of Threads makes calls on the one cache.  The shards are
\* objects of a heap: objs[o] is the shard object o, mu[o] the holder of its
\* lock (0: free), slice the field l.shards as the objects it points to
\* (<<>>: nil); shards stays what l.shards holds, by value.
View(o, sl) == [i \in 1..Len(sl) |-> o[sl[i]]]

NoEntry == [key |-> Nil, val |-> Nil]

\* A *list.Element held by a walker: pos > 0 is the element at that place of
\* the list walked, pos = 0 with an entry an element removed from the list
\* (its Value is kept, its links are nil), NilPtr is nil.
NilPtr == [pos |-> 0, e |-> NoEntry]

\* a thread between calls, and the locals of a call: s the shard selected,
\* i and n the loop variable and the sum of Len, term the count it read
\* last, le the element and visits the calls of fn of a traversal, snap the
\* list as it was when the walk of the shard began
Idle ==
  [pc |-> "idle", op |-> "none", key |-> Nil, val |-> Nil, s |-> 0,
   i |-> 0, n |-> 0, term |-> 0, step |-> 0, stop |-> 0,
   le |-> NilPtr, visits |-> <<>>, snap |-> <<>>]

\* where a call begins: Add, PeekFront and Len with lazyInit, Get and
\* Remove with l.shard(key), the traversals with the range over l.shards
Entry(op) ==
  IF op \in {"Add", "PeekFront", "Len"} THEN "init"
  ELSE IF op \in {"Get", "Remove"} THEN "route"
  ELSE "range"

AfterInit(op) == IF op = "Len" THEN "sum" ELSE "route"

\* the walkers holding an element of the list of the shard object o
Walkers(o) ==
  {w \in Threads : th[w].pc = "walk" /\ th[w].s = o /\ th[w].le.pos > 0}

\* A walker's element is one more pointer into the list: it is carried
\* through the list operations beside those of the index, under the name -w.
WithPtrs(s, o) ==
  [s EXCEPT !.idx = [x \in (DOMAIN s.idx) \cup {0 - w : w \in Walkers(o)} |->
                       IF x \in DOMAIN s.idx THEN s.idx[x]
                       ELSE th[0 - x].le.pos]]

StripPtrs(s) ==
  [s EXCEPT !.idx = [x \in {y \in DOMAIN s.idx : y > 0} |-> s.idx[x]]]

\* the element of walker w after the shard object o went from old to new
Retarget(w, o, old, new) ==
  IF w \notin Walkers(o) THEN th[w].le
  ELSE IF new.idx[0 - w] = Dangling
       THEN [pos |-> 0, e |-> old.l[th[w].le.pos]]
       ELSE [pos |-> new.idx[0 - w], e |-> NoEntry]

\* thread t has changed the shard object o to new and goes on at pc
Mutate(t, o, new, pc) ==
  /\ objs' = [objs EXCEPT ![o] = StripPtrs(new)]
  /\ th' = [w \in Threads |->
              IF w = t THEN [th[t] EXCEPT !.pc = pc]
              ELSE [th[w] EXCEPT !.le = Retarget(w, o, objs[o], new)]]
  /\ shards' = View(objs', slice)
  /\ UNCHANGED <<cap, nshards, panicked, mu, slice, hist>>

\* a thread calls op
Start(t, op, k, v, step, stop) ==
  /\ ~panicked
  /\ th[t].pc \in {"idle", "done"}
  /\ th' = [th EXCEPT ![t] = [Idle EXCEPT !.pc = Entry(op), !.op = op,
                                          !.key = k, !.val = v,
                                          !.step = step, !.stop = stop]]
  /\ UNCHANGED <<cap, nshards, shards, panicked, objs, mu, slice, hist>>

\* lazyInit: if l.shards == nil
LazyCheck(t) ==
  /\ ~panicked
  /\ th[t].pc = "init"
  /\ th' = [th EXCEPT ![t].pc = IF slice = <<>> THEN "install"
                                ELSE AfterInit(th[t].op)]
  /\ UNCHANGED <<cap, nshards, shards, panicked, objs, mu, slice, hist>>

\* lazyInit: l.nshards = 1; l.shards = []*shard{newShard(l.cap)}
LazyInstall(t) ==
  /\ ~panicked
  /\ th[t].pc = "install"
  /\ nshards' = 1
  /\ objs' = Append(objs, newShard(cap))
  /\ mu' = Append(mu, 0)
  /\ slice' = <<Len(objs) + 1>>
  /\ shards' = View(objs', slice')
  /\ th' = [th EXCEPT ![t].pc = AfterInit(th[t].op)]
  /\ UNCHANGED <<cap, panicked, hist>>

\* l.shard(key), PeekFront with the key 1
RouteStep(t) ==
  /\ ~panicked
  /\ th[t].pc = "route"
  /\ LET k == IF th[t].op = "PeekFront" THEN 1 ELSE th[t].key
         i == Route(k, nshards, View(objs, slice))
     IN /\ panicked' = (i = 0)
        /\ th' = [th EXCEPT ![t].pc = IF i = 0 THEN "panic" ELSE "lock",
                            ![t].s = IF i = 0 THEN 0 ELSE slice[i]]
  /\ UNCHANGED <<cap, nshards, shards, objs, mu, slice, hist>>

\* s.Lock()
LockStep(t) ==
  /\ ~panicked
  /\ th[t].pc = "lock"
  /\ mu[th[t].s] = 0
  /\ mu' = lock(mu, th[t].s, t)
  /\ th' = [th EXCEPT ![t].pc = "body"]
  /\ UNCHANGED <<cap, nshards, shards, panicked, objs, slice, hist>>

\* the lines of add, get, removeKey and front under the lock, of add up to
\* the increment of the count
Body(t) ==
  /\ ~panicked
  /\ th[t].pc = "body"
  /\ LET o == th[t].s
         s == WithPtrs(objs[o], o)
         a == addInsert(s, th[t].key, th[t].val)
     IN CASE th[t].op = "Add" ->
               Mutate(t, o, a.s, IF a.done THEN "unlock" ELSE "evict")
          [] th[t].op = "Get" ->
               Mutate(t, o, get(s, th[t].key).s, "unlock")
          [] th[t].op = "Remove" ->
               Mutate(t, o, removeKey(s, th[t].key), "unlock")
          [] OTHER ->
               Mutate(t, o, s, "unlock")

\* add: if s.cap > 0 && s.Len() > s.cap { s.removeOldest() }
Evict(t) ==
  /\ ~panicked
  /\ th[t].pc = "evict"
  /\ Mutate(t, th[t].s, addEvict(WithPtrs(objs[th[t].s], th[t].s)), "unlock")

\* the deferred s.Unlock(), and the return
Unlock(t) ==
  /\ ~panicked
  /\ th[t].pc = "unlock"
  /\ mu' = unlock(mu, th[t].s)
  /\ th' = [th EXCEPT ![t] = [Idle EXCEPT !.pc = "done"]]
  /\ UNCHANGED <<cap, nshards, shards, panicked, objs, slice, hist>>

\* Len: one turn of for i := 0; i < l.nshards; i++ { len += l.shards[i].Len() }
LenStep(t) ==
  /\ ~panicked
  /\ th[t].pc = "sum"
  /\ LET i == th[t].i
     IN IF i >= nshards
        THEN /\ th' = [th EXCEPT ![t].pc = "done"]
             /\ UNCHANGED panicked
        ELSE IF i + 1 > Len(slice)
        THEN /\ th' = [th EXCEPT ![t].pc = "panic"]
             /\ panicked' = TRUE
        ELSE /\ th' = [th EXCEPT ![t].s = slice[i + 1],
                                 ![t].term = ShardLen(objs[slice[i + 1]]),
                                 ![t].n = @ + ShardLen(objs[slice[i + 1]]),
                                 ![t].i = i + 1]
             /\ UNCHANGED panicked
  /\ UNCHANGED <<cap, nshards, shards, objs, mu, slice, hist>>

\* Traverse, TraverseReverse: for _, s := range l.shards, and
\* le := s.l.Front() or s.l.Back() of the first shard
Range(t) ==
  /\ ~panicked
  /\ th[t].pc = "range"
  /\ th' = IF slice = <<>>
           THEN [th EXCEPT ![t].pc = "done"]
           ELSE LET l == objs[slice[1]].l
                    first == IF th[t].step = 1 THEN 1 ELSE Len(l)
                IN [th EXCEPT ![t].pc = "walk",
                              ![t].s = slice[1],
                              ![t].snap = l,
                              ![t].le = IF l = <<>> THEN NilPtr
                                        ELSE [pos |-> first, e |-> NoEntry]]
  /\ UNCHANGED <<cap, nshards, shards, panicked, objs, mu, slice, hist>>

\* le.Next() or le.Prev(): nil at the end of the list and for an element
\* that was removed from it
Follow(l, le, step) ==
  IF le.pos = 0 \/ le.pos + step < 1 \/ le.pos + step > Len(l) THEN NilPtr
  ELSE [pos |-> le.pos + step, e |-> NoEntry]

\* one turn of the inner loop: break L on nil, fn on the entry, break L
\* when fn returns false, le = le.Next() or le.Prev().  A walk whose
\* element is moved to the front again and again does not end: it is
\* followed for MaxVisits calls of fn.
Visit(t) ==
  /\ ~panicked
  /\ th[t].pc = "walk"
  /\ Len(th[t].visits) < MaxVisits
  /\ LET le == th[t].le
         l == objs[th[t].s].l
         e == IF le.pos > 0 THEN l[le.pos] ELSE le.e
         seen == Append(th[t].visits, e)
     IN th' = IF le = NilPtr
              THEN [th EXCEPT ![t].pc = "done"]
              ELSE IF Len(seen) = th[t].stop
              THEN [th EXCEPT ![t].pc = "done", ![t].visits = seen,
                              ![t].le = NilPtr]
              ELSE [th EXCEPT ![t].visits = seen,
                              ![t].le = Follow(l, le, th[t].step)]
  /\ UNCHANGED <<cap, nshards, shards, panicked, objs, mu, slice, hist>>

\* ----------------------------------------------------- specifications
\* no threads: the calls are made one after another
NoThreads == objs = <<>> /\ mu = <<>> /\ slice = <<>> /\ th = <<>>


\* a cache built by New with any of the options tried
Built ==
  /\ \E c \in CapOpts, n \in ShardOpts :
       LET x == New(c, n)
       IN cap = x.cap /\ nshards = x.nshards /\ shards = x.shards
  /\ panicked = FALSE
  /\ last = NoCall
  /\ recency = [i \in 1..Len(shards) |-> <<>>]
  /\ prev = [shards |-> shards, recency |-> recency]

Init == Built /\ added = NotOnlyAdds /\ live = NoLive /\ u = NoU /\ NoThreads

\* the same caches, for the runs of Add calls alone
InitAdd ==
  /\ Built /\ added = [only |-> TRUE, keys |-> {}] /\ live = NoLive /\ u = NoU
  /\ NoThreads

\* the caches built with total capacity <= 0
InitUnbounded ==
  /\ Built
  /\ cap <= 0
  /\ added = NotOnlyAdds
  /\ live = [NoLive EXCEPT !.on = TRUE]
  /\ u = NoU
  /\ NoThreads

\* the caches built with one shard, each beside the unsharded New(cap)
InitOne ==
  /\ Built
  /\ nshards = 1
  /\ added = NotOnlyAdds
  /\ live = NoLive
  /\ u = [on |-> TRUE, c |-> UNew(cap), ret |-> NoCall]
  /\ NoThreads

\* the zero value of LRU, never passed through New
InitZero ==
  /\ cap = 0 /\ nshards = 0 /\ shards = <<>>
  /\ panicked = FALSE
  /\ last = NoCall
  /\ prev = [shards |-> <<>>, recency |-> <<>>]
  /\ recency = <<>>
  /\ added = NotOnlyAdds
  /\ live = NoLive
  /\ u = NoU
  /\ NoThreads

\* the keys and values the threads call with, and the caches they share:
\* the keys 1 and 2 go to one shard of one and to different shards of two
ConKeys == {1, 2}
ConVals == {1}
ConCaps == {1, 2}
ConShards == {1, 2}

\* every shard of l.shards an object of the heap, its lock free, and the
\* threads between calls
InitHeap ==
  /\ objs = shards
  /\ mu = [i \in 1..Len(shards) |-> 0]
  /\ slice = [i \in 1..Len(shards) |-> i]
  /\ th = [t \in Threads |-> Idle]

\* a cache built by New, shared by the threads
InitShared ==
  /\ Built
  /\ cap \in ConCaps /\ nshards \in ConShards
  /\ added = NotOnlyAdds /\ live = NoLive /\ u = NoU
  /\ InitHeap

\* the zero value of LRU, shared by the threads
InitLazy ==
  /\ cap = 0 /\ nshards = 0 /\ shards = <<>>
  /\ panicked = FALSE
  /\ last = NoCall
  /\ prev = [shards |-> <<>>, recency |-> <<>>]
  /\ recency = <<>>
  /\ added = NotOnlyAdds /\ live = NoLive /\ u = NoU
  /\ InitHeap

Next ==
  \/ \E k \in Keys, v \in Vals : Add(k, v)
  \/ \E k \in Keys : Get(k)
  \/ \E k \in Keys : Remove(k)
  \/ LRULen
  \/ PeekFront
  \/ \E stop \in 0..MaxStop : Traverse(stop)
  \/ \E stop \in 0..MaxStop : TraverseReverse(stop)

\* only Add calls, and Len to observe them
NextAdd ==
  \/ \E k \in Keys, v \in Vals : Add(k, v)
  \/ LRULen

\* Add, Get and Remove, and Len to observe them
NextKeyed ==
  \/ \E k \in Keys, v \in Vals : Add(k, v)
  \/ \E k \in Keys : Get(k)
  \/ \E k \in Keys : Remove(k)
  \/ LRULen

\* the steps of Add, Get, Remove and PeekFront on a cache built by New
Locked(t) ==
  \/ LazyCheck(t)
  \/ RouteStep(t)
  \/ LockStep(t)
  \/ Body(t)
  \/ Evict(t)
  \/ Unlock(t)

\* threads calling Add, Get, Remove and PeekFront
NextLocked ==
  \E t \in Threads :
    \/ \E k \in ConKeys, v \in ConVals : Start(t, "Add", k, v, 0, 0)
    \/ \E k \in ConKeys : Start(t, "Get", k, Nil, 0, 0)
    \/ \E k \in ConKeys : Start(t, "Remove", k, Nil, 0, 0)
    \/ Start(t, "PeekFront", Nil, Nil, 0, 0)
    \/ Locked(t)

\* threads calling every operation
NextShared ==
  \/ NextLocked
  \/ \E t \in Threads :
       \/ Start(t, "Len", Nil, Nil, 0, 0)
       \/ LenStep(t)
       \/ \E stop \in 0..MaxStop : Start(t, "Traverse", Nil, Nil, 1, stop)
       \/ \E stop \in 0..MaxStop :
            Start(t, "TraverseReverse", Nil, Nil, 0 - 1, stop)
       \/ Range(t)
       \/ Visit(t)

\* every thread t making one call, Add(t, v), its first
NextLazy ==
  \E t \in Threads :
    \/ th[t].pc = "idle" /\ \E v \in ConVals : Start(t, "Add", t, v, 0, 0)
    \/ LazyInstall(t)
    \/ Locked(t)

Spec == Init /\ [][Next]_vars
SpecShared == InitShared /\ [][NextShared]_vars
SpecLazy == InitLazy /\ [][NextLazy]_vars

\* The scheduler lets every thread that can take a step take one (WF); a
\* thread waiting in s.Lock() gets the lock in the end although others take
\* it over and over, since sync.Mutex hands it to a waiter that has waited
\* too long (SF).  No thread has to start a call.
SpecLockedFair ==
  /\ InitShared
  /\ [][NextLocked]_vars
  /\ \A t \in Threads :
       /\ WF_vars(LazyCheck(t) \/ RouteStep(t) \/ Body(t) \/ Evict(t)
                    \/ Unlock(t))
       /\ SF_vars(LockStep(t))
SpecUnbounded == InitUnbounded /\ [][NextKeyed]_vars
SpecOne == InitOne /\ [][Next]_vars
SpecAdd == InitAdd /\ [][NextAdd]_vars
SpecZero == InitZero /\ [][Next]_vars

\* ------------------------------------------------- claims: vocabulary
KeySeq(l) == [j \in 1..Len(l) |-> l[j].key]
ValOf(l, k) == l[CHOOSE j \in 1..Len(l) : l[j].key = k].val
WithoutKey(l, k) == LET Keep(e) == e.key # k IN SelectSeq(l, Keep)
Reverse(seq) == [j \in 1..Len(seq) |-> seq[Len(seq) + 1 - j]]

\* the last call was op on a key, it returned, and i is the key's shard
Returned(op) == last.op = op /\ ~panicked
At == Route(last.key, nshards, shards)
Was == prev.shards[At]
Now == shards[At]
OthersUnchanged ==
  \A j \in 1..Len(shards) : j # At => shards[j] = prev.shards[j]
Miss(s) == [s |-> s, value |-> Nil, ok |-> FALSE]

\* C1: in every state between calls, each shard's index and order list are
\* consistent: the index holds exactly the keys of the list's entries, no key
\* occurs twice in the list, and each index entry points at the list element
\* that carries its key.
IndexOrderConsistent ==
  \A i \in 1..Len(shards) :
    LET s == shards[i]
    IN /\ DOMAIN s.idx = KeysOf(s.l)
       /\ \A a, b \in 1..Len(s.l) : s.l[a].key = s.l[b].key => a = b
       /\ \A k \in DOMAIN s.idx :
            s.idx[k] \in 1..Len(s.l) /\ s.l[s.idx[k]].key = k

\* a Remove has taken an entry from the middle of a list and entries remain
IndexOrderWitness ==
  /\ Returned("Remove")
  /\ last.key \in DOMAIN Was.idx
  /\ Was.idx[last.key] = 2
  /\ Len(Now.l) = 2

\* C2: whenever a call has returned, each shard's atomic count equals the
\* length of its order list and, if the shard's capacity is > 0, is at most
\* that capacity (insertion and eviction are one step of the shard).
CountMatchesOrder ==
  \A i \in 1..Len(shards) :
    LET s == shards[i]
    IN s.len = Len(s.l) /\ (s.cap > 0 => s.len <= s.cap)

\* an Add of a new key to a full shard has returned
CountMatchesOrderWitness ==
  /\ Returned("Add")
  /\ Was.cap > 0
  /\ Was.len = Was.cap
  /\ last.key \notin DOMAIN Was.idx
  /\ Now.len = Now.cap

\* C3: an Add of a key not present that takes a shard of capacity > 0 over
\* its capacity evicts exactly one entry: the least recently used one (the
\* tail of the list, the last key in the order of last Add or successful
\* Get), never the entry just added; a Get of the evicted key then misses and
\* every other key of the shard is still found with its value.
EvictsLeastRecent ==
  (/\ Returned("Add")
   /\ Was.cap > 0
   /\ last.key \notin DOMAIN Was.idx
   /\ Was.len + 1 > Was.cap)
  => LET gone == KeysOf(Was.l) \ KeysOf(Now.l)
         order == prev.recency[At]
     IN /\ Cardinality(gone) = 1
        /\ gone = {Was.l[Len(Was.l)].key}
        /\ gone = {order[Len(order)]}
        /\ last.key \notin gone
        /\ Now.l = <<[key |-> last.key, val |-> last.val]>>
                     \o SubSeq(Was.l, 1, Len(Was.l) - 1)
        /\ \A k \in gone : get(Now, k) = Miss(Now)
        /\ \A k \in (KeysOf(Was.l) \cup {last.key}) \ gone :
             /\ get(Now, k).ok
             /\ get(Now, k).value =
                  IF k = last.key THEN last.val ELSE ValOf(Was.l, k)
        /\ OthersUnchanged

\* an Add has evicted from a shard that held two entries
EvictsLeastRecentWitness ==
  /\ Returned("Add")
  /\ Was.cap = 2
  /\ last.key \notin DOMAIN Was.idx
  /\ Was.len = 2
  /\ KeySeq(Was.l) # KeySeq(Now.l)

\* C4: for a cache built by New with total capacity > 0, Len() never exceeds
\* the total capacity.
AggregateWithinCapacity ==
  cap > 0 => SumLen(shards, nshards) <= cap

\* C5 as stated: after Add calls alone, if the number of distinct keys added
\* is at most the configured capacity, Len() returns that number.
LenCountsDistinctAdds ==
  (/\ Returned("Len")
   /\ added.only
   /\ Cardinality(added.keys) <= cap)
  => last.n = Cardinality(added.keys)

\* the keys added that the router sends to shard i
AddedTo(i) == {k \in added.keys : Route(k, nshards, shards) = i}

\* every shard is unbounded or was sent no more keys than its capacity
WithinShardCapacities ==
  \A i \in 1..Len(shards) :
    shards[i].cap <= 0 \/ Cardinality(AddedTo(i)) <= shards[i].cap

\* C5 amended: after Add calls alone, if every shard was sent at most as many
\* distinct keys as its own capacity (total capacity / shard count), or is
\* unbounded, Len() returns the number of distinct keys added.
LenCountsDistinctAddsPerShard ==
  (/\ Returned("Len")
   /\ added.only
   /\ WithinShardCapacities)
  => last.n = Cardinality(added.keys)

\* Len() after two keys were added to a bounded cache of two shards, each
\* shard filled to its capacity
LenCountsWitness ==
  /\ Returned("Len")
  /\ added.only
  /\ WithinShardCapacities
  /\ nshards = 2
  /\ \A i \in 1..Len(shards) :
       shards[i].cap > 0 /\ Cardinality(AddedTo(i)) = shards[i].cap

\* C6: Add(k, v) for a key already present replaces its value by v, moves it
\* to the front of its shard, keeps the order of the other entries, changes
\* no count and evicts nothing; a Get(k) then returns (v, true).
AddExistingPromotes ==
  (Returned("Add") /\ last.key \in DOMAIN Was.idx)
  => /\ Now.l = <<[key |-> last.key, val |-> last.val]>>
                  \o WithoutKey(Was.l, last.key)
     /\ Now.len = Was.len
     /\ SumLen(shards, nshards) = SumLen(prev.shards, nshards)
     /\ KeysOf(Now.l) = KeysOf(Was.l)
     /\ OthersUnchanged
     /\ get(Now, last.key).ok
     /\ get(Now, last.key).value = last.val
     /\ Head(recency[At]) = last.key

\* the tail of three entries was added again with another value
AddExistingWitness ==
  /\ Returned("Add")
  /\ last.key \in DOMAIN Was.idx
  /\ Len(Was.l) = 3
  /\ Was.l[3].key = last.key
  /\ Was.l[3].val # last.val

\* the shard after n evictions of its oldest entry
RECURSIVE EvictTimes(_, _)
EvictTimes(s, n) == IF n = 0 THEN s ELSE EvictTimes(removeOldest(s), n - 1)

\* C7: Get(k) of a present key returns (its value, true) and moves k to the
\* front of its shard, the other entries keeping their order, so that k is
\* the last entry of the shard that evictions would remove; Get(k) of an
\* absent key returns (nil, false) and changes no shard.  Each list is in the
\* order of last Add or successful Get.
GetPromotes ==
  /\ Returned("Get") =>
       IF last.key \in KeysOf(Was.l)
       THEN /\ last.ok
            /\ last.rval = ValOf(Was.l, last.key)
            /\ Now.l = <<[key |-> last.key, val |-> last.rval]>>
                         \o WithoutKey(Was.l, last.key)
            /\ Now.len = Was.len
            /\ KeysOf(EvictTimes(Now, Len(Now.l) - 1).l) = {last.key}
            /\ OthersUnchanged
       ELSE /\ ~last.ok
            /\ last.rval = Nil
            /\ shards = prev.shards
  /\ last.op = "Get" => ~panicked
  /\ \A i \in 1..Len(shards) : KeySeq(shards[i].l) = recency[i]

\* a Get has found the tail of two or more entries
GetPromotesWitness ==
  /\ Returned("Get")
  /\ last.ok
  /\ Len(Was.l) >= 2
  /\ Was.l[Len(Was.l)].key = last.key
  /\ Now.l[1].key = last.key

\* C8: Remove(k) of a present key takes it out of its shard, so that a Get(k)
\* misses, lowers Len() by exactly 1 and keeps the other entries and their
\* order; Remove(k) of an absent key changes no shard; neither fails.
RemoveDrops ==
  /\ Returned("Remove") =>
       IF last.key \in KeysOf(Was.l)
       THEN /\ Now.l = WithoutKey(Was.l, last.key)
            /\ Len(Now.l) = Len(Was.l) - 1
            /\ get(Now, last.key) = Miss(Now)
            /\ SumLen(shards, nshards) = SumLen(prev.shards, nshards) - 1
            /\ OthersUnchanged
       ELSE shards = prev.shards
  /\ last.op = "Remove" => ~panicked

\* a Remove has taken the middle one of three entries
RemoveDropsWitness ==
  /\ Returned("Remove")
  /\ Len(Was.l) = 3
  /\ Was.l[2].key = last.key
  /\ Len(Now.l) = 2

\* C9: on a cache never built by New, whatever call comes first completes
\* without failure and behaves as on an empty unbounded cache of one shard.
ZeroValueUsable ==
  (prev.shards = <<>> /\ last.op # "New")
  => /\ ~panicked
     /\ last.op = "Get" => ~last.ok /\ last.rval = Nil
     /\ last.op = "Len" => last.n = 0
     /\ last.op = "PeekFront" => last.rkey = Nil /\ last.rval = Nil
     /\ last.op \in {"Traverse", "TraverseReverse"} => last.visits = <<>>
     /\ last.op = "Add" =>
          /\ Len(shards) = 1
          /\ shards[1].l = <<[key |-> last.key, val |-> last.val]>>
     /\ last.op = "Remove" => \A i \in 1..Len(shards) : shards[i].l = <<>>

\* the entries of all shards, shard 0 first, each shard's list from the front
\* (step = 1) or from the back
RECURSIVE AllEntries(_, _, _)
AllEntries(shs, n, step) ==
  IF n = 0 THEN <<>>
  ELSE AllEntries(shs, n - 1, step)
         \o (IF step = 1 THEN shs[n].l ELSE Reverse(shs[n].l))

\* C10: with a visit function that always returns true, Traverse and
\* TraverseReverse visit shards 0..N-1 in that order and call the function
\* exactly once for every entry of every shard; the number of visits is Len().
TraverseVisitsAll ==
  /\ (Returned("Traverse") /\ last.stop = 0)
     => /\ last.visits = AllEntries(shards, Len(shards), 1)
        /\ Len(last.visits) = SumLen(shards, nshards)
  /\ (Returned("TraverseReverse") /\ last.stop = 0)
     => /\ last.visits = AllEntries(shards, Len(shards), 0 - 1)
        /\ Len(last.visits) = SumLen(shards, nshards)

\* C11: with one shard, Traverse visits the entries in the order of their
\* last Add or successful Get, most recent first, and TraverseReverse visits
\* them in exactly the reverse sequence; with any number of shards the visit
\* function is not called again once it has returned false (on its stop-th
\* call), and with one shard the visits made until then are the first ones
\* of that order.
TraverseInRecencyOrder ==
  /\ (Returned("Traverse") /\ nshards = 1 /\ last.stop = 0)
     => /\ last.visits = shards[1].l
        /\ KeySeq(last.visits) = recency[1]
  /\ (Returned("TraverseReverse") /\ nshards = 1 /\ last.stop = 0)
     => /\ last.visits = Reverse(shards[1].l)
        /\ KeySeq(last.visits) = Reverse(recency[1])
  /\ (last.op \in {"Traverse", "TraverseReverse"} /\ last.stop > 0)
     => /\ Len(last.visits) <= last.stop
        /\ nshards = 1 =>
             LET all == IF last.op = "Traverse" THEN shards[1].l
                        ELSE Reverse(shards[1].l)
                 n == IF Len(all) < last.stop THEN Len(all) ELSE last.stop
             IN last.visits = SubSeq(all, 1, n)

\* a Traverse of three entries was stopped at its second visit
TraverseStoppedWitness ==
  /\ Returned("Traverse")
  /\ nshards = 1
  /\ last.stop = 2
  /\ Len(shards[1].l) = 3
  /\ Len(last.visits) = 2

\* C14: PeekFront returns the front entry of the one shard the key 1 is
\* routed to, which is that shard's key of the most recent Add or successful
\* Get; it returns (nil, nil) exactly when that shard is empty, whatever the
\* other shards hold; and it changes no shard.
PeekFrontReturnsFront ==
  /\ Returned("PeekFront") =>
       LET i == Route(1, nshards, shards)
           s == shards[i]
       IN /\ i # 0
          /\ (last.rkey = Nil /\ last.rval = Nil) <=> s.l = <<>>
          /\ s.l # <<>> =>
               /\ last.rkey = s.l[1].key
               /\ last.rval = s.l[1].val
               /\ last.rkey = Head(recency[i])
          /\ shards = prev.shards
  /\ last.op = "PeekFront" => ~panicked

\* PeekFront has returned the front of two or more entries
PeekFrontWitness ==
  /\ Returned("PeekFront")
  /\ Len(shards[Route(1, nshards, shards)].l) >= 2
  /\ last.rkey = shards[Route(1, nshards, shards)].l[1].key

\* PeekFront has returned (nil, nil) while another shard holds an entry
PeekFrontEmptyShardReached ==
  /\ Returned("PeekFront")
  /\ last.rkey = Nil
  /\ \E j \in 1..Len(shards) : shards[j].l # <<>>

\* 32-bit hash values tried beside those of Keys: every low byte, with the
\* three high bytes all clear or all set
SampleHashes == {<<b, c, c, c>> : b \in 0..255, c \in {0, 255}}

\* the slice index h & (n - 1) is inside a slice of n shards
MaskInRange(h, n) ==
  LET x == MaskBytes(h, n)
  IN x[2] = 0 /\ x[3] = 0 /\ x[4] = 0 /\ x[1] \in 0..(n - 1)

SamplesInRange ==
  \A n \in 1..MaxShards : \A h \in SampleHashes : MaskInRange(h, n)

\* C16: for every shard count >= 1, power of two or not, the index
\* h & (shard_count - 1) lies in 0..shard_count-1; every key is routed to one
\* shard of the cache, the same on every call, so that a key is stored in no
\* shard but the one it is routed to.
RouterInRange ==
  /\ SamplesInRange
  /\ \A k \in Keys :
       /\ MaskInRange(Sum32[k], nshards)
       /\ Route(k, nshards, shards) \in 1..nshards
       /\ \A i \in 1..Len(shards) :
            k \in KeysOf(shards[i].l) => i = Route(k, nshards, shards)

\* a cache of three shards stores keys in two of them
RouterWitness ==
  /\ nshards = 3
  /\ Cardinality({i \in 1..Len(shards) : shards[i].l # <<>>}) = 2

\* C18: for every shard count >= 1, every index 0..shard_count-1 is selected
\* by the router for some hash value.
EveryShardSelectable ==
  \A i \in 0..(nshards - 1) :
    \E h \in SampleHashes : MaskBytes(h, nshards) = <<i, 0, 0, 0>>

LiveKeys == {k \in Keys : live.m[k] # Nil}

\* C15: with total capacity <= 0 and any shard count, no Add evicts: after
\* any sequence of Add, Get and Remove, a Get of a key added and not removed
\* since finds its latest value, a Get of any other key misses, and Len()
\* is the number of keys added and not removed since.
UnboundedKeepsAll ==
  /\ ~panicked
  /\ \A k \in Keys :
       LET r == get(shards[Route(k, nshards, shards)], k)
       IN /\ r.ok = (k \in LiveKeys)
          /\ r.value = live.m[k]
  /\ Returned("Get") =>
       /\ last.ok = (last.key \in LiveKeys)
       /\ last.rval = live.m[last.key]
  /\ Returned("Len") => last.n = Cardinality(LiveKeys)
  /\ SumLen(shards, nshards) = Cardinality(LiveKeys)

\* Len() of an unbounded cache of several shards that holds every key
UnboundedWitness ==
  /\ Returned("Len")
  /\ nshards > 1
  /\ last.n = MaxKey
  /\ \E k \in Keys : live.m[k] = 2

\* C20: the sharded cache built with one shard and capacity c and the
\* unsharded LRU built by New(c), given the same sequence of Add, Get,
\* Remove, Len, PeekFront, Traverse and TraverseReverse calls, return the
\* same results at every step and hold the same entries in the same order.
OneShardEquivalent ==
  /\ ~panicked
  /\ u.ret = last
  /\ u.c.l = shards[1].l
  /\ DOMAIN u.c.idx = DOMAIN shards[1].idx
  /\ ULen(u.c) = SumLen(shards, nshards)

\* a Get has promoted the last entry of a full bounded cache, in both
OneShardWitness ==
  /\ u.on
  /\ Returned("Get") /\ last.ok
  /\ cap > 1 /\ Len(shards[1].l) = cap
  /\ prev.shards[1].l[cap].key = last.key
  /\ u.c.l[1].key = last.key

\* ---------------------------------------------------------- threads
Holds(t) == {o \in 1..Len(mu) : mu[o] = t}

\* at most one lock per thread, held exactly from s.Lock() to the deferred
\* s.Unlock() and being the lock of the shard selected
LockDiscipline ==
  \A t \in Threads :
    /\ Cardinality(Holds(t)) <= 1
    /\ th[t].pc \in {"body", "evict", "unlock"} => Holds(t) = {th[t].s}
    /\ th[t].pc \notin {"body", "evict", "unlock"} => Holds(t) = {}

\* C13: on a cache built by New, an Add, Get, Remove or PeekFront call holds
\* at most one shard lock at a time and has released it when it returns;
\* with any number of callers, fairly scheduled, every call that was started
\* returns.
LocksReleasedAndCallsReturn ==
  /\ []LockDiscipline
  /\ [](\A t \in Threads : th[t].pc \in {"idle", "done"} => Holds(t) = {})
  /\ \A t \in Threads :
       (th[t].pc \notin {"idle", "done"}) ~> (th[t].pc = "done")

\* a thread waits in s.Lock() for the lock another holds in add, before
\* its eviction
BlockedCallerWitness ==
  \E t \in Threads, w \in Threads :
    /\ th[t].pc = "lock"
    /\ mu[th[t].s] = w
    /\ th[w].pc = "evict"

\* C12: a traversal that ran to the end of the shard it walked has called fn
\* once for each entry the shard held when the walk began, in their order
\* then (reversed for TraverseReverse): calls of other threads on the shard
\* do not show in it.
TraverseSeesSnapshot ==
  \A t \in Threads :
    (/\ th[t].op \in {"Traverse", "TraverseReverse"}
     /\ th[t].pc = "done"
     /\ th[t].stop = 0
     /\ th[t].s # 0)
    => th[t].visits = IF th[t].step = 1 THEN th[t].snap
                      ELSE Reverse(th[t].snap)

\* C17: the count Len() reads from a shard of capacity > 0 is at most that
\* capacity, whatever the other threads are doing.
LenTermWithinCapacity ==
  \A t \in Threads :
    (th[t].op = "Len" /\ th[t].s # 0 /\ objs[th[t].s].cap > 0)
    => th[t].term <= objs[th[t].s].cap

\* C19: threads making their first Add calls at once on a zero-value cache,
\* with distinct keys: one shard is installed and no more, and when all the
\* calls have returned every key is found by Get and Len() is their number.
LazyInitSafe ==
  /\ Len(objs) <= 1
  /\ (\A t \in Threads : th[t].pc = "done") =>
       /\ \A t \in Threads :
            get(shards[Route(t, nshards, shards)], t).ok
       /\ SumLen(shards, nshards) = Cardinality(Threads)

\* the same, of the keys alone
LazyInitKeepsAdds ==
  (\A t \in Threads : th[t].pc = "done") =>
    \A t \in Threads : get(shards[Route(t, nshards, shards)], t).ok
====
